---- MODULE Spec2Model ----
(***************************************************************************)
(* Model of the NFT search widget of src/components/Demo.tsx: the React   *)
(* state of the Demo component, the asynchronous function searchNFTs      *)
(* (one action per synchronous segment between two awaits), the memoized  *)
(* loadMore callback and the IntersectionObserver effect that drives it.  *)
(*                                                                         *)
(* Rendering.  Every synchronous segment (an event handler, or the code   *)
(* that runs after an await) batches its state updates into one commit.   *)
(* A commit re-creates searchNFTs, which closes over the pageKey of that  *)
(* render; useCallback keeps the previous loadMore (and so the previous   *)
(* searchNFTs and its pageKey) unless one of its dependencies changed.    *)
(*                                                                         *)
(* Strings.  A query or address string is the record                      *)
(*   [pfx, body, len, hexOnly]: the "0x"/"0X" prefix it starts with (""   *)
(* when it has none), a name for the characters after the prefix, their   *)
(* number, and whether all of them are hexadecimal digits.  The empty     *)
(* string (also standing for null, both falsy in the code) is Empty.      *)
(*                                                                         *)
(* Token ids.  A tokenId is the decimal string of hi * 2^53 + lo, kept as *)
(* the pair <<hi, lo>> with hi \in {0,1} and lo small.                     *)
(***************************************************************************)
EXTENDS Integers, Sequences, FiniteSets, TLC

VARIABLES
    searchQuery,            \* useState, line 97
    searchResults,          \* useState, line 98
    isLoading,              \* useState, line 100
    error,                  \* useState, line 101 ("" for null)
    isLoadingMore,          \* useState, line 104
    hasMore,                \* useState, line 105
    pageKey,                \* useState, line 106 ("" for null)
    currentContractAddress, \* useState, line 107 (Empty for null)
    loadMoreKey,            \* the pageKey closed over by the memoized loadMore
    observing,              \* the current observer observes a mounted trigger
    calls,                  \* the invocations of searchNFTs suspended at an await
    nextId,                 \* number of the next invocation of searchNFTs
    session,                \* history: number of the latest new search
    sessTarget,             \* history: resolved address of the latest new search
    pagesDone,              \* history: pages merged since the latest new search
    clean,                  \* history: one search only, sequential, no failure
    sessOk,                 \* history: the latest search ran alone, no failure
    last,                   \* history: what the last step did
    suggestions,            \* useState, line 102
    showSuggestions,        \* useState, line 103
    debounce,               \* the 300 ms timer of the suggestion effect is set
    blurTimers,             \* number of 200 ms timers set by onBlur
    fetches,                \* the suggestion requests in flight
    nextFetch,              \* number of the next suggestion request
    lastFetch,              \* history: query of the latest fetchSuggestions call
    fetchOk                 \* history: no suggestion request has failed

vars == <<searchQuery, searchResults, isLoading, error, isLoadingMore, hasMore,
          pageKey, currentContractAddress, loadMoreKey, observing, calls,
          nextId, session, sessTarget, pagesDone, clean, sessOk, last,
          suggestions, showSuggestions, debounce, blurTimers, fetches,
          nextFetch, lastFetch, fetchOk>>

\* The suggestion state that only the suggestion handlers write.
suggestVars == <<suggestions, blurTimers, fetches, nextFetch, lastFetch,
                 fetchOk>>

\* Bound on the number of invocations of searchNFTs in one behaviour.
MaxCalls == 3

\* Bound on the number of invocations suspended at an await at one time.
MaxInFlight == 2

\* The {40} of the address pattern.
AddrHexLen == 40

NoKey == ""
NoError == ""

Empty == [pfx |-> "", body |-> "", len |-> 0, hexOnly |-> TRUE]
Addr(b) == [pfx |-> "0x", body |-> b, len |-> AddrHexLen, hexOnly |-> TRUE]
BareHex(b) == [pfx |-> "", body |-> b, len |-> AddrHexLen, hexOnly |-> TRUE]
Name(n, l) == [pfx |-> "", body |-> n, len |-> l, hexOnly |-> FALSE]

\* The popular-collection buttons (a name and an address each).
EXAMPLE_COLLECTIONS ==
    { [name |-> Name("bayc", 4), address |-> Addr("A")] }

\* The texts the user types into the search box.
Queries ==
    { Empty, Name("void", 4), Addr("B"), BareHex("B") }

\* The pattern with the prefix optional: /^(0x)?[a-fA-F0-9]{40}$/i
isAddress_OptionalPrefix(q) ==
    /\ q.pfx \in {"", "0x", "0X"}
    /\ q.len = AddrHexLen
    /\ q.hexOnly

\* searchQuery.length
Length(q) == (IF q.pfx = "" THEN 0 ELSE 2) + q.len

\* /^0x[a-fA-F0-9]{40}$/i
isAddress(q) ==
    /\ q.pfx \in {"0x", "0X"}
    /\ q.len = AddrHexLen
    /\ q.hexOnly

--------------------------------------------------------------------------
\* The external services.

\* searchContractMetadata: the contracts matching a name.
NameSearch(q) ==
    IF q = Name("bayc", 4) THEN << Addr("A") >>
    ELSE IF q = Name("void", 4) THEN << Addr("E") >>
    ELSE << >>

Nft(hi, lo, ver) == [tokenId |-> <<hi, lo>>, ver |-> ver]

\* getNFTsForCollection: the page of a contract at a cursor.  A cursor that
\* is not one of the contract's is refused.
Listing(body, key) ==
    IF body = "A" /\ key = NoKey THEN
        [ok |-> TRUE, pageKey |-> "a1",
         nfts |-> << Nft(0, 3, 1), Nft(0, 1, 1), Nft(0, 3, 2) >>]
    ELSE IF body = "A" /\ key = "a1" THEN
        [ok |-> TRUE, pageKey |-> NoKey,
         nfts |-> << Nft(0, 2, 1), Nft(0, 1, 2) >>]
    ELSE IF body = "B" /\ key = NoKey THEN
        [ok |-> TRUE, pageKey |-> "b1",
         nfts |-> << Nft(1, 1, 1), Nft(1, 0, 1), Nft(0, 2, 1) >>]
    ELSE IF body = "B" /\ key = "b1" THEN
        [ok |-> TRUE, pageKey |-> NoKey, nfts |-> << >>]
    ELSE IF body = "E" /\ key = NoKey THEN
        [ok |-> TRUE, pageKey |-> NoKey, nfts |-> << >>]
    ELSE
        [ok |-> FALSE, pageKey |-> NoKey, nfts |-> << >>]

\* How a request ends: a 2xx response, another status, or a transport error.
Outcomes == {"ok", "http", "net"}

--------------------------------------------------------------------------
\* The merge of a page into the accumulation (lines 273-297).

\* parseInt of a decimal tokenId: the nearest double.  Below 2^53 every
\* integer is a double; from 2^53 to 2^54 the doubles are the even integers
\* and a tie goes to the even mantissa (a multiple of 4 above 2^53).
parseInt(t) ==
    IF t[1] = 0 \/ t[2] % 2 = 0 THEN t
    ELSE IF (t[2] + 1) % 4 = 0 THEN <<t[1], t[2] + 1>>
    ELSE <<t[1], t[2] - 1>>

\* parseInt(a.tokenId) - parseInt(b.tokenId) > 0
CompareGreater(a, b) ==
    LET x == parseInt(a.tokenId)
        y == parseInt(b.tokenId)
    IN  x[1] > y[1] \/ (x[1] = y[1] /\ x[2] > y[2])

formattedNFT(nft, address) ==
    [tokenId |-> nft.tokenId, address |-> address, ver |-> nft.ver]

formattedNFTs(nfts, address) ==
    [i \in DOMAIN nfts |-> formattedNFT(nfts[i], address)]

deduplicatedNFTs_KeepsAll(s) == s

deduplicatedNFTs_LastWins(s) ==
    LET marked == [i \in DOMAIN s |->
                     [item |-> s[i],
                      duplicate |-> \E j \in (i + 1)..Len(s) :
                                        s[j].tokenId = s[i].tokenId]]
        kept == SelectSeq(marked, LAMBDA e : ~e.duplicate)
    IN  [i \in DOMAIN kept |-> kept[i].item]

\* filter with the `seen` set: the first item of each tokenId is kept.
deduplicatedNFTs(s) ==
    LET marked == [i \in DOMAIN s |->
                     [item |-> s[i],
                      duplicate |-> \E j \in 1..(i - 1) :
                                        s[j].tokenId = s[i].tokenId]]
        kept == SelectSeq(marked, LAMBDA e : ~e.duplicate)
    IN  [i \in DOMAIN kept |-> kept[i].item]

\* Array.prototype.sort is stable: x goes after every item not greater.
RECURSIVE InsertSorted(_, _)
InsertSorted(s, x) ==
    IF s = << >> THEN << x >>
    ELSE IF CompareGreater(s[Len(s)], x)
         THEN Append(InsertSorted(SubSeq(s, 1, Len(s) - 1), x), s[Len(s)])
         ELSE Append(s, x)

RECURSIVE SortByTokenId(_)
SortByTokenId(s) ==
    IF s = << >> THEN << >>
    ELSE InsertSorted(SortByTokenId(SubSeq(s, 1, Len(s) - 1)), s[Len(s)])

\* The updater given to setSearchResults.
MergeResults(prevResults, formatted, resetResults) ==
    LET newResults == IF resetResults THEN formatted ELSE prevResults \o formatted
    IN  SortByTokenId(deduplicatedNFTs(newResults))

--------------------------------------------------------------------------
\* Rendering after a commit.

\* The load-more trigger is rendered (line 505).
TriggerExists ==
    (hasMore \/ isLoadingMore) /\ Len(searchResults) > 0

\* useCallback(..., [isLoadingMore, hasMore, currentContractAddress]):
\* loadMore is re-created, with the searchNFTs of the new render, only when
\* a dependency changed.
MemoLoadMore ==
    loadMoreKey' =
        IF <<isLoadingMore', hasMore', currentContractAddress'>>
             # <<isLoadingMore, hasMore, currentContractAddress>>
        THEN pageKey'
        ELSE loadMoreKey

\* useEffect(..., [isLoading, isLoadingMore, hasMore, loadMore]): a new
\* observer observes the trigger if it is mounted; an observer kept from an
\* earlier render loses a trigger that is unmounted.
ObserverEffect ==
    observing' =
        IF <<isLoading', isLoadingMore', hasMore', currentContractAddress'>>
             # <<isLoading, isLoadingMore, hasMore, currentContractAddress>>
        THEN TriggerExists'
        ELSE observing /\ TriggerExists'

Render == MemoLoadMore /\ ObserverEffect

\* useEffect(..., [searchQuery]) (lines 120-165): a commit that changes
\* searchQuery clears the pending timer and sets a new one.
SuggestEffect == debounce' = (debounce \/ searchQuery' # searchQuery)

--------------------------------------------------------------------------
Init ==
    /\ searchQuery = Empty
    /\ searchResults = << >>
    /\ isLoading = FALSE
    /\ error = NoError
    /\ isLoadingMore = FALSE
    /\ hasMore = TRUE
    /\ pageKey = NoKey
    /\ currentContractAddress = Empty
    /\ loadMoreKey = NoKey
    /\ observing = FALSE
    /\ calls = {}
    /\ nextId = 1
    /\ session = 0
    /\ sessTarget = Empty
    /\ pagesDone = 0
    /\ clean = TRUE
    /\ sessOk = TRUE
    /\ last = [op |-> "mount", reset |-> FALSE, key |-> NoKey, body |-> ""]
    /\ suggestions = << >>
    /\ showSuggestions = FALSE
    /\ debounce = TRUE
    /\ blurTimers = 0
    /\ fetches = {}
    /\ nextFetch = 1
    /\ lastFetch = Empty
    /\ fetchOk = TRUE

Event(op, c) ==
    [op |-> op, reset |-> c.reset, key |-> c.key, body |-> c.target.body]

\* Lines 170-177 of searchNFTs.
ResetState_KeepsCursor(resetResults) ==
    /\ isLoading' = IF resetResults THEN TRUE ELSE isLoading
    /\ searchResults' = IF resetResults THEN << >> ELSE searchResults
    /\ pageKey' = pageKey
    /\ hasMore' = IF resetResults THEN TRUE ELSE hasMore
    /\ isLoadingMore' = IF resetResults THEN isLoadingMore ELSE TRUE

ResetState(resetResults) ==
    /\ isLoading' = IF resetResults THEN TRUE ELSE isLoading
    /\ searchResults' = IF resetResults THEN << >> ELSE searchResults
    /\ pageKey' = IF resetResults THEN NoKey ELSE pageKey
    /\ hasMore' = IF resetResults THEN TRUE ELSE hasMore
    /\ isLoadingMore' = IF resetResults THEN isLoadingMore ELSE TRUE

\* searchNFTs up to its first await (lines 167-228).  key is the pageKey of
\* the render whose searchNFTs is called.
searchNFTs(query, contractAddress, resetResults, key) ==
    LET targetAddress ==
            IF contractAddress # Empty THEN contractAddress
            ELSE IF isAddress(query) THEN query
            ELSE Empty
        c == [id |-> nextId, query |-> query, target |-> targetAddress,
              reset |-> resetResults, key |-> key,
              given |-> (contractAddress # Empty),
              sess |-> IF resetResults THEN nextId ELSE session,
              pc |-> IF targetAddress = Empty THEN "search" ELSE "contract"]
    IN  /\ ~(query = Empty /\ contractAddress = Empty)
        /\ nextId <= MaxCalls
        /\ Cardinality(calls) < MaxInFlight
        /\ ResetState(resetResults)
        /\ error' = NoError
        /\ showSuggestions' = FALSE
        /\ UNCHANGED suggestVars
        /\ currentContractAddress' =
               IF targetAddress # Empty THEN targetAddress
               ELSE currentContractAddress
        /\ calls' = calls \cup {c}
        /\ nextId' = nextId + 1
        /\ session' = c.sess
        /\ sessTarget' = IF resetResults THEN targetAddress ELSE sessTarget
        /\ pagesDone' = IF resetResults THEN 0 ELSE pagesDone
        /\ clean' = (clean /\ calls = {} /\ (resetResults => nextId = 1))
        /\ sessOk' = ((resetResults \/ sessOk) /\ calls = {})
        /\ last' = Event(IF resetResults THEN "begin" ELSE "continue", c)
        /\ Render

\* onChange of the search box (line 401).
onChange(q) ==
    /\ q # searchQuery
    /\ searchQuery' = q
    /\ SuggestEffect
    /\ UNCHANGED <<showSuggestions, suggestVars>>
    /\ UNCHANGED <<searchResults, isLoading, error, isLoadingMore, hasMore,
                   pageKey, currentContractAddress, loadMoreKey, observing,
                   calls, nextId, session, sessTarget, pagesDone, clean, sessOk,
                   last>>

\* Enter in the search box (lines 408-412).
onKeyDown ==
    /\ searchNFTs(searchQuery, Empty, TRUE, pageKey)
    /\ UNCHANGED <<searchQuery, debounce>>

\* The Search button (lines 446-452), disabled while isLoading.
SearchButton ==
    /\ ~isLoading
    /\ searchNFTs(searchQuery, Empty, TRUE, pageKey)
    /\ UNCHANGED <<searchQuery, debounce>>

\* A popular-collection button (lines 380-385).
PopularClick(collection) ==
    /\ searchQuery' = collection.name
    /\ SuggestEffect
    /\ searchNFTs(collection.name, collection.address, TRUE, pageKey)

\* loadMore (lines 311-315), called with the searchNFTs it closed over.
loadMore ==
    /\ ~isLoadingMore /\ hasMore /\ currentContractAddress # Empty
    /\ searchNFTs(currentContractAddress, currentContractAddress, FALSE, loadMoreKey)

\* The IntersectionObserver callback (lines 320-324) with the trigger in view.
ObserverCallback ==
    /\ observing
    /\ ~isLoading /\ ~isLoadingMore /\ hasMore
    /\ loadMore
    /\ UNCHANGED <<searchQuery, debounce>>

Finally_LoadingOnly(c) ==
    /\ isLoading' = FALSE
    /\ isLoadingMore' = isLoadingMore
    /\ calls' = calls \ {c}

\* The finally block (lines 304-307) and the end of the invocation.
Finally(c) ==
    /\ isLoading' = FALSE
    /\ isLoadingMore' = FALSE
    /\ calls' = calls \ {c}

\* The state the catch block (lines 298-303) leaves.
CatchState_ClearsAlways(c, message) ==
    /\ error' = message
    /\ searchResults' = << >>

CatchState_NeverClears(c, message) ==
    /\ error' = message
    /\ searchResults' = searchResults

CatchState(c, message) ==
    /\ error' = message
    /\ searchResults' = IF c.reset THEN << >> ELSE searchResults

\* A catch block that issues the failed request again.
Catch_Retries(c, message) ==
    /\ CatchState(c, message)
    /\ isLoading' = FALSE
    /\ isLoadingMore' = FALSE
    /\ calls' = calls
    /\ clean' = FALSE
    /\ sessOk' = FALSE
    /\ last' = Event("fail", c)
    /\ UNCHANGED <<searchQuery, hasMore, pageKey, currentContractAddress,
                   nextId, session, sessTarget, pagesDone>>
    /\ Render

\* The catch block and what follows it.
Catch(c, message) ==
    /\ CatchState(c, message)
    /\ Finally(c)
    /\ clean' = FALSE
    /\ sessOk' = FALSE
    /\ last' = Event("fail", c)
    /\ UNCHANGED <<searchQuery, hasMore, pageKey, currentContractAddress,
                   nextId, session, sessTarget, pagesDone>>
    /\ Render

\* The message of the error thrown for a request that did not end well.
Message(outcome, notOk) ==
    IF outcome = "http" THEN notOk ELSE "Failed to fetch"

\* The name search found no contract (lines 213-217).
NotFound_KeepsResults(c) ==
    /\ error' = "Collection not found"
    /\ searchResults' = searchResults

NotFound(c) ==
    /\ error' = "Collection not found"
    /\ searchResults' = << >>

\* The name search answers (lines 208-225).
SearchResponse(c, outcome) ==
    /\ c \in calls /\ c.pc = "search"
    /\ IF outcome # "ok" THEN
           Catch(c, Message(outcome, "Failed to search for collection"))
       ELSE IF NameSearch(c.query) = << >> THEN
           /\ NotFound(c)
           /\ Finally(c)
           /\ clean' = FALSE
           /\ sessOk' = FALSE
           /\ last' = Event("notfound", c)
           /\ UNCHANGED <<searchQuery, hasMore, pageKey, currentContractAddress,
                          nextId, session, sessTarget, pagesDone>>
           /\ Render
       ELSE
           LET d == [c EXCEPT !.target = NameSearch(c.query)[1], !.pc = "contract"]
           IN  /\ currentContractAddress' = d.target
               /\ calls' = (calls \ {c}) \cup {d}
               /\ sessTarget' = IF c.id = session THEN d.target ELSE sessTarget
               /\ last' = Event("resolved", d)
               /\ UNCHANGED <<searchQuery, searchResults, isLoading, error,
                              isLoadingMore, hasMore, pageKey, nextId, session,
                              pagesDone, clean, sessOk>>
               /\ Render

\* The contract metadata answers and the listing is requested with the
\* pageKey of the closure (lines 232-252).
ContractResponse(c, outcome) ==
    /\ c \in calls /\ c.pc = "contract"
    /\ IF outcome # "ok" THEN
           Catch(c, Message(outcome, "Failed to fetch contract metadata"))
       ELSE
           LET d == [c EXCEPT !.pc = "nfts"]
           IN  /\ calls' = (calls \ {c}) \cup {d}
               /\ last' = Event("request", d)
               /\ UNCHANGED <<searchQuery, searchResults, isLoading, error,
                              isLoadingMore, hasMore, pageKey,
                              currentContractAddress, loadMoreKey, observing,
                              nextId, session, sessTarget, pagesDone, clean,
                              sessOk>>

\* A listing response without items (lines 260-267).
EmptyPage_Inverted(c) ==
    /\ error' = IF ~c.reset THEN "No NFTs found in this collection" ELSE error
    /\ searchResults' = IF ~c.reset THEN << >> ELSE searchResults
    /\ hasMore' = FALSE

EmptyPage(c) ==
    /\ error' = IF c.reset THEN "No NFTs found in this collection" ELSE error
    /\ searchResults' = IF c.reset THEN << >> ELSE searchResults
    /\ hasMore' = FALSE

\* The cursor and hasMore after a page with items (lines 269-271).
UpdateCursor_AlwaysMore(nftsData) ==
    /\ pageKey' = nftsData.pageKey
    /\ hasMore' = TRUE

UpdateCursor(nftsData) ==
    /\ pageKey' = nftsData.pageKey
    /\ hasMore' = (nftsData.pageKey # NoKey)

\* The listing answers (lines 254-297).
NftsResponse(c, outcome) ==
    /\ c \in calls /\ c.pc = "nfts"
    /\ LET nftsData == Listing(c.target.body, c.key)
       IN  IF outcome # "ok" \/ ~nftsData.ok THEN
               Catch(c, Message(IF outcome = "ok" THEN "http" ELSE outcome,
                                "Failed to fetch NFTs from collection"))
           ELSE IF nftsData.nfts = << >> THEN
               /\ EmptyPage(c)
               /\ Finally(c)
               /\ clean' = FALSE
               /\ last' = Event("empty", c)
               /\ UNCHANGED <<searchQuery, pageKey, currentContractAddress,
                              nextId, session, sessTarget, pagesDone, sessOk>>
               /\ Render
           ELSE
               /\ UpdateCursor(nftsData)
               /\ searchResults' =
                      MergeResults(searchResults,
                                   formattedNFTs(nftsData.nfts, c.target.body),
                                   c.reset)
               /\ Finally(c)
               /\ pagesDone' = pagesDone + 1
               /\ last' = Event("page", c)
               /\ UNCHANGED <<searchQuery, error, currentContractAddress,
                              nextId, session, sessTarget, clean, sessOk>>
               /\ Render

\* The steps of searchNFTs after an await write no suggestion state.
NoSuggestChange == UNCHANGED <<showSuggestions, debounce, suggestVars>>

Next ==
    \/ \E q \in Queries : onChange(q)
    \/ onKeyDown
    \/ SearchButton
    \/ \E collection \in EXAMPLE_COLLECTIONS : PopularClick(collection)
    \/ ObserverCallback
    \/ \E c \in calls, outcome \in Outcomes :
           SearchResponse(c, outcome) /\ NoSuggestChange
    \/ \E c \in calls, outcome \in Outcomes :
           ContractResponse(c, outcome) /\ NoSuggestChange
    \/ \E c \in calls, outcome \in Outcomes :
           NftsResponse(c, outcome) /\ NoSuggestChange

Spec == Init /\ [][Next]_vars

--------------------------------------------------------------------------
\* The suggestion dropdown (lines 120-165 and 401-424).

\* Bound on the number of suggestion requests in one behaviour.
MaxFetches == 2

\* Bound on the number of onBlur timers pending at once.
MaxBlurTimers == 1

\* Bound on the number of new searches in one behaviour of the whole
\* widget.
MaxWidgetCalls == 1

\* if (searchQuery.length < 2), line 122.
MinSuggestLen == 2

\* The texts typed while the dropdown is watched: one of a single character
\* besides those of Queries.
Typed == Queries \cup { Name("v", 1) }

\* The name the suggestion service holds for a contract.
ContractName(address) ==
    IF address = Addr("A") THEN Name("bayc", 4) ELSE Name("void", 4)

\* data.contracts.map(...) (lines 149-153) on the response for a query.
formattedSuggestions(query) ==
    [i \in DOMAIN NameSearch(query) |->
        [name |-> ContractName(NameSearch(query)[i]),
         address |-> NameSearch(query)[i]]]

\* The 300 ms timer fires: fetchSuggestions up to its await (lines 121-143).
fetchSuggestions ==
    /\ debounce
    /\ debounce' = FALSE
    /\ lastFetch' = searchQuery
    /\ IF Length(searchQuery) < MinSuggestLen
       THEN /\ suggestions' = << >>
            /\ UNCHANGED <<fetches, nextFetch>>
       ELSE /\ nextFetch <= MaxFetches
            /\ fetches' = fetches \cup {[id |-> nextFetch, query |-> searchQuery]}
            /\ nextFetch' = nextFetch + 1
            /\ UNCHANGED suggestions
    /\ UNCHANGED <<searchQuery, searchResults, isLoading, error, isLoadingMore,
                   hasMore, pageKey, currentContractAddress, loadMoreKey,
                   observing, calls, nextId, session, sessTarget, pagesDone,
                   clean, sessOk, last, showSuggestions, blurTimers, fetchOk>>

\* What a response of the suggestion service leaves in the list
\* (lines 154-159).
SuggestState(f, outcome) ==
    /\ suggestions' = IF outcome = "ok" THEN formattedSuggestions(f.query)
                      ELSE << >>
    /\ showSuggestions' = (outcome = "ok" \/ showSuggestions)

\* fetchSuggestions after its await (lines 145-160).
SuggestResponse(f, outcome) ==
    /\ SuggestState(f, outcome)
    /\ fetches' = fetches \ {f}
    /\ fetchOk' = (fetchOk /\ outcome = "ok")
    /\ UNCHANGED <<searchQuery, searchResults, isLoading, error, isLoadingMore,
                   hasMore, pageKey, currentContractAddress, loadMoreKey,
                   observing, calls, nextId, session, sessTarget, pagesDone,
                   clean, sessOk, last, debounce, blurTimers, nextFetch,
                   lastFetch>>

\* onFocus of the search box (line 402).
onFocus ==
    /\ showSuggestions' = TRUE
    /\ UNCHANGED <<searchQuery, searchResults, isLoading, error, isLoadingMore,
                   hasMore, pageKey, currentContractAddress, loadMoreKey,
                   observing, calls, nextId, session, sessTarget, pagesDone,
                   clean, sessOk, last, debounce, suggestVars>>

\* onBlur of the search box (lines 403-405): sets a 200 ms timer.
onBlur ==
    /\ blurTimers < MaxBlurTimers
    /\ blurTimers' = blurTimers + 1
    /\ UNCHANGED <<searchQuery, searchResults, isLoading, error, isLoadingMore,
                   hasMore, pageKey, currentContractAddress, loadMoreKey,
                   observing, calls, nextId, session, sessTarget, pagesDone,
                   clean, sessOk, last, showSuggestions, debounce, suggestions,
                   fetches, nextFetch, lastFetch, fetchOk>>

\* A timer of onBlur fires (line 404).
BlurTimeout ==
    /\ blurTimers > 0
    /\ blurTimers' = blurTimers - 1
    /\ showSuggestions' = FALSE
    /\ UNCHANGED <<searchQuery, searchResults, isLoading, error, isLoadingMore,
                   hasMore, pageKey, currentContractAddress, loadMoreKey,
                   observing, calls, nextId, session, sessTarget, pagesDone,
                   clean, sessOk, last, debounce, suggestions, fetches,
                   nextFetch, lastFetch, fetchOk>>

\* A click on a row of the dropdown (lines 415-424).
SuggestionClick(suggestion) ==
    /\ showSuggestions
    /\ searchQuery' = suggestion.name
    /\ SuggestEffect
    /\ searchNFTs(suggestion.name, suggestion.address, TRUE, pageKey)

\* The whole widget: the search handlers and the suggestion handlers.
NextSuggest ==
    \/ \E q \in Typed : onChange(q)
    \/ fetchSuggestions
    \/ \E f \in fetches, outcome \in Outcomes : SuggestResponse(f, outcome)
    \/ onFocus
    \/ onBlur
    \/ BlurTimeout
    \/ \E i \in DOMAIN suggestions :
           nextId <= MaxWidgetCalls /\ SuggestionClick(suggestions[i])
    \/ nextId <= MaxWidgetCalls /\ onKeyDown
    \/ nextId <= MaxWidgetCalls /\ SearchButton
    \/ \E collection \in EXAMPLE_COLLECTIONS :
           nextId <= MaxWidgetCalls /\ PopularClick(collection)
    \/ ObserverCallback
    \/ \E c \in calls, outcome \in Outcomes :
           SearchResponse(c, outcome) /\ NoSuggestChange
    \/ \E c \in calls, outcome \in Outcomes :
           ContractResponse(c, outcome) /\ NoSuggestChange
    \/ \E c \in calls, outcome \in Outcomes :
           NftsResponse(c, outcome) /\ NoSuggestChange

SpecSuggest == Init /\ [][NextSuggest]_vars

TypeOK ==
    /\ searchQuery \in Queries \cup {e.name : e \in EXAMPLE_COLLECTIONS}
    /\ isLoading \in BOOLEAN /\ isLoadingMore \in BOOLEAN /\ hasMore \in BOOLEAN
    /\ observing \in BOOLEAN /\ clean \in BOOLEAN /\ sessOk \in BOOLEAN
    /\ nextId \in 1..(MaxCalls + 1)
    /\ Cardinality(calls) <= MaxInFlight

--------------------------------------------------------------------------
\* The numeric order of token ids, and the pages of a listing in order.

NumLeq(t, u) == t[1] < u[1] \/ (t[1] = u[1] /\ t[2] <= u[2])

RECURSIVE InsertNumeric(_, _)
InsertNumeric(s, x) ==
    IF s = << >> THEN << x >>
    ELSE IF NumLeq(s[Len(s)].tokenId, x.tokenId)
         THEN Append(s, x)
         ELSE Append(InsertNumeric(SubSeq(s, 1, Len(s) - 1), x), s[Len(s)])

RECURSIVE SortNumeric(_)
SortNumeric(s) ==
    IF s = << >> THEN << >>
    ELSE InsertNumeric(SortNumeric(SubSeq(s, 1, Len(s) - 1)), s[Len(s)])

\* The cursor of the i-th page of a contract's listing.
RECURSIVE CursorOfPage(_, _)
CursorOfPage(body, i) ==
    IF i <= 1 THEN NoKey ELSE Listing(body, CursorOfPage(body, i - 1)).pageKey

RECURSIVE FirstPages(_, _)
FirstPages(body, k) ==
    IF k = 0 THEN << >>
    ELSE FirstPages(body, k - 1)
            \o formattedNFTs(Listing(body, CursorOfPage(body, k)).nfts, body)

\* The first occurrence of each tokenId of s, in ascending numeric order.
UnionOf(s) ==
    SortNumeric(SelectSeq(
        [i \in DOMAIN s |->
            [tokenId |-> s[i].tokenId, address |-> s[i].address, ver |-> s[i].ver,
             first |-> \A j \in 1..(i - 1) : s[j].tokenId # s[i].tokenId]],
        LAMBDA e : e.first))

Plain(s) ==
    [i \in DOMAIN s |->
        [tokenId |-> s[i].tokenId, address |-> s[i].address, ver |-> s[i].ver]]

--------------------------------------------------------------------------
\* C1: in every reachable state no two items of searchResults have the same
\* tokenId.
C1_NoDuplicateTokenId ==
    \A i, j \in DOMAIN searchResults :
        i # j => searchResults[i].tokenId # searchResults[j].tokenId

\* A continuation page that re-sends token 1 has been merged into an
\* accumulation that holds tokens 1, 2 and 3.
C1_Witness ==
    /\ last.op = "page" /\ ~last.reset
    /\ last.body = "A" /\ last.key = "a1"
    /\ Len(searchResults) = 3

\* C2: in every reachable state searchResults is in non-decreasing numeric
\* order of tokenId.
C2_SortedNumerically ==
    \A i, j \in DOMAIN searchResults :
        i < j => NumLeq(searchResults[i].tokenId, searchResults[j].tokenId)

\* C3: a response of an abandoned session (an invocation that is not of the
\* current session ends) leaves the accumulation, the cursor and the
\* exhausted-flag of the current session alone.
C3_StaleResponseDiscarded ==
    [][(\E c \in calls :
            /\ c.sess # session
            /\ \A d \in calls' : d.id # c.id)
       => UNCHANGED <<searchResults, pageKey, hasMore>>]_vars

\* C4: a listing request carries the current cursor: none for the first page
\* of a session, the pageKey state for a continuation.
C4_RequestCarriesCurrentCursor ==
    [][\A d \in calls' \ calls :
           d.pc = "nfts" => d.key = (IF d.reset THEN NoKey ELSE pageKey)]_vars

\* C5: at most one listing request of the current session is in flight.
C5_OneFetchPerSession ==
    Cardinality({c \in calls : c.sess = session /\ c.pc = "nfts"}) <= 1

\* C6: right after a new search begins the accumulation is empty, the cursor
\* is null and hasMore is true.
C6_BeginResets ==
    last.op = "begin" =>
        /\ searchResults = << >>
        /\ pageKey = NoKey
        /\ hasMore

\* A new search has begun from a render whose cursor was not null.
C6_Witness ==
    /\ last.op = "begin"
    /\ \E c \in calls : c.id = session /\ c.key # NoKey

\* C7: merging a continuation page keeps every item the accumulation held,
\* as it was (an item re-sent by the page is discarded).
C7_FirstOccurrenceWins ==
    [][(last'.op = "page" /\ ~last'.reset /\ calls' # calls)
       => \A i \in DOMAIN searchResults :
              \E j \in DOMAIN searchResults' :
                  searchResults'[j] = searchResults[i]]_vars

\* The second page of A, which re-sends token 1 as version 2, has been merged
\* and the accumulation holds version 1.
C7_Witness ==
    /\ last.op = "page" /\ ~last.reset
    /\ last.body = "A" /\ last.key = "a1"
    /\ \E i \in DOMAIN searchResults :
           searchResults[i].tokenId = <<0, 1>> /\ searchResults[i].ver = 1

\* C8: after a first page and k - 1 continuations of one search, all
\* successful and one after the other, the accumulation is the deduplicated,
\* numerically sorted union of pages 1..k of the contract's listing.
C8_UnionOfPages ==
    (clean /\ calls = {} /\ pagesDone >= 2)
        => searchResults = Plain(UnionOf(FirstPages(sessTarget.body, pagesDone)))

\* C9: after an empty first page the accumulation is empty and the not-found
\* error is shown.
C9_EmptyFirstPage ==
    (last.op = "empty" /\ last.reset) =>
        /\ searchResults = << >>
        /\ error = "No NFTs found in this collection"

\* The first page of the empty collection E has been received.
C9_Witness ==
    last.op = "empty" /\ last.reset /\ last.body = "E"

\* C10: a failed continuation leaves the accumulation, the cursor and
\* hasMore unchanged and sets the error.
C10_ContinuationFailureKeeps ==
    [][(last'.op = "fail" /\ ~last'.reset /\ calls' # calls)
       => /\ UNCHANGED <<searchResults, pageKey, hasMore>>
          /\ error' # NoError]_vars

\* A continuation has failed with results and a cursor in place.
C10_Witness ==
    /\ last.op = "fail" /\ ~last.reset
    /\ Len(searchResults) > 0
    /\ pageKey # NoKey

\* C11: after a failed first-page fetch (at the name search, the contract
\* metadata or the listing) the accumulation is empty and an error is shown.
C11_FirstPageFailureClears ==
    (last.op = "fail" /\ last.reset) =>
        /\ searchResults = << >>
        /\ error # NoError

\* A new search has failed at its name search.
C11_Witness ==
    /\ last.op = "fail" /\ last.reset
    /\ error = "Failed to search for collection"

\* C12: the step in which a fetch fails ends that invocation and starts
\* none; an invocation only starts in a new search or a continuation.
C12_NoAutomaticRetry ==
    [][/\ (last'.op = "fail" /\ searchQuery' = searchQuery)
            => /\ nextId' = nextId
               /\ calls' \subseteq calls
               /\ Cardinality(calls') = Cardinality(calls) - 1
       /\ \A d \in calls' :
            (\A c \in calls : c.id # d.id) => last'.op \in {"begin", "continue"}
      ]_vars

\* A listing request has failed and nothing is in flight.
C12_Witness ==
    /\ last.op = "fail"
    /\ error = "Failed to fetch NFTs from collection"
    /\ calls = {}

\* C13: a continuation issues its listing request only while hasMore holds.
C13_ContinuationOnlyWhileMore ==
    [][\A d \in calls' \ calls :
           (d.pc = "nfts" /\ ~d.reset /\ d.sess = session) => hasMore]_vars

\* The address pattern as the claim C14 has it (0x optional) and as the
\* code has it (0x required).
Hex40(q) == q.len = 40 /\ q.hexOnly /\ q.pfx \in {"", "0x", "0X"}
Hex40With0x(q) == q.len = 40 /\ q.hexOnly /\ q.pfx \in {"0x", "0X"}

\* C14 as claimed: a query of 40 hex characters, with or without 0x, given
\* without a contract address is not sent to the name search; it is the
\* resolved address.
C14_OptionalPrefix ==
    \A c \in calls :
        (~c.given /\ Hex40(c.query)) => (c.pc # "search" /\ c.target = c.query)

\* C14 amended: a query of 0x and 40 hex characters given without a contract
\* address is the resolved address and is never sent to the name search;
\* every other such query, 40 hex characters without 0x included, goes
\* through the name search and resolves to its first match.
C14_PrefixRequired ==
    \A c \in calls :
        /\ (~c.given /\ Hex40With0x(c.query))
              => (c.pc # "search" /\ c.target = c.query)
        /\ (~c.given /\ ~Hex40With0x(c.query))
              => \/ c.pc = "search" /\ c.target = Empty
                 \/ /\ c.pc # "search"
                    /\ NameSearch(c.query) # << >>
                    /\ c.target = NameSearch(c.query)[1]

\* An address with 0x is used directly while 40 hex characters without 0x
\* wait for the name search.
C14_Witness ==
    /\ \E c \in calls : c.query = Addr("B") /\ c.reset /\ c.pc = "contract"
    /\ \E c \in calls : c.query = BareHex("B") /\ c.reset /\ c.pc = "search"

\* C15: when the name search finds nothing the invocation ends there (no
\* further request), the error is "Collection not found", the accumulation
\* is empty and isLoading is false.
C15_CollectionNotFound ==
    [][(last'.op = "notfound" /\ searchQuery' = searchQuery /\ calls' # calls)
       => /\ error' = "Collection not found"
          /\ searchResults' = << >>
          /\ ~isLoading'
          /\ calls' \subseteq calls
          /\ \A c \in calls \ calls' : c.pc = "search"]_vars

\* The name search has found nothing.
C15_Witness ==
    last.op = "notfound" /\ error = "Collection not found"

\* C16: after a failed or not-found search or continuation both loading
\* flags are false.
C16_FlagsClearedAfterFailure ==
    last.op \in {"fail", "notfound", "empty"} =>
        ~isLoading /\ ~isLoadingMore

\* A continuation has failed.
C16_Witness ==
    last.op = "fail" /\ ~last.reset

\* C17: after a page with items the cursor is the token of the response and
\* hasMore holds exactly when there is one.
C17_CursorFollowsResponse ==
    last.op = "page" =>
        /\ pageKey = Listing(last.body, last.key).pageKey
        /\ hasMore = (Listing(last.body, last.key).pageKey # NoKey)

\* A page without a next-page token has been merged.
C17_Witness ==
    last.op = "page" /\ pageKey = NoKey /\ ~hasMore

\* The token ids of a contract's listing from a cursor on, over at most n
\* pages.
RECURSIVE TokensFrom(_, _, _)
TokensFrom(body, key, n) ==
    LET page == Listing(body, key)
        here == {page.nfts[i].tokenId : i \in DOMAIN page.nfts}
    IN  IF n = 0 \/ ~page.ok THEN {}
        ELSE IF page.pageKey = NoKey THEN here
        ELSE here \cup TokensFrom(body, page.pageKey, n - 1)

\* C18 (its safety part): when a search that ran alone, every request
\* succeeding, is exhausted, the accumulation holds every token of the
\* contract.
C18_ExhaustedMeansComplete ==
    (session >= 1 /\ sessOk /\ calls = {} /\ ~hasMore)
        => TokensFrom(sessTarget.body, NoKey, 4)
              \subseteq {searchResults[i].tokenId : i \in DOMAIN searchResults}

\* C19: once no suggestion request is in flight (none having failed), the
\* list holds the results for the query of the latest fetchSuggestions
\* call, and nothing for a query shorter than 2 characters; no request is
\* in flight for a query shorter than 2 characters.
C19_LatestSuggestionsKept ==
    /\ (fetches = {} /\ fetchOk)
          => suggestions = IF Length(lastFetch) < MinSuggestLen THEN << >>
                           ELSE formattedSuggestions(lastFetch)
    /\ \A f \in fetches : Length(f.query) >= MinSuggestLen

\* C20: isLoading holds while a new search is in flight and isLoadingMore
\* while a continuation is.
C20_FlagsTrackInFlight ==
    /\ (\E c \in calls : c.reset) => isLoading
    /\ (\E c \in calls : ~c.reset) => isLoadingMore

====
